---------------------------- MODULE Spec2Model ----------------------------
(***************************************************************************)
(* Model of the live-menu pipeline, src/update_menu_automator.py: a batch  *)
(* script that loads a spreadsheet, pages through the inventory API, pulls *)
(* lab results per retained unit, builds the JSON payload, and publishes   *)
(* it through git when its hash differs from the local menu.json.          *)
(*                                                                         *)
(* Text is modelled as a sequence of one-character strings, so that        *)
(* lower(), strip(), replace(), substring tests, the sort keys, the JSON   *)
(* encoding and the hash are computed character by character.              *)
(***************************************************************************)
EXTENDS Integers, Sequences, FiniteSets, TLC

(***************************************************************************)
(* Characters: printable ASCII, code points 32..126 (the entry for 96 is a  *)
(* placeholder that no text contains).                                     *)
(***************************************************************************)
Ascii ==
  <<" ","!","\"","#","$","%","&","'","(",")","*","+",",","-",".","/",
    "0","1","2","3","4","5","6","7","8","9",":",";","<","=",">","?",
    "@","A","B","C","D","E","F","G","H","I","J","K","L","M","N","O",
    "P","Q","R","S","T","U","V","W","X","Y","Z","[","\\","]","^","_",
    "grave","a","b","c","d","e","f","g","h","i","j","k","l","m","n","o",
    "p","q","r","s","t","u","v","w","x","y","z","{","|","}","~">>

CharSet == {Ascii[i] : i \in 1..Len(Ascii)}

OrdMap == [c \in CharSet |-> 31 + (CHOOSE i \in 1..Len(Ascii) : Ascii[i] = c)]

Ord(c) == OrdMap[c]

Chr(n) == Ascii[n - 31]

Digits == <<"0","1","2","3","4","5","6","7","8","9">>

IsDigit(c) == Ord(c) \in 48..57

DigitVal(c) == Ord(c) - 48

\* str.lower() on one character / on a string
LowerChar(c) == IF Ord(c) \in 65..90 THEN Chr(Ord(c) + 32) ELSE c

Lower(s) == [i \in 1..Len(s) |-> LowerChar(s[i])]

\* str.strip(): drop leading and trailing whitespace
RECURSIVE LStrip(_)
LStrip(s) == IF s # <<>> /\ Head(s) = " " THEN LStrip(Tail(s)) ELSE s

RECURSIVE RStrip(_)
RStrip(s) == IF s # <<>> /\ s[Len(s)] = " " THEN RStrip(SubSeq(s, 1, Len(s) - 1)) ELSE s

Strip(s) == RStrip(LStrip(s))

\* str.replace(c, ""): delete every occurrence of the character c
RemoveChar(s, c) == SelectSeq(s, LAMBDA x : x # c)

\* the Python test  a in name  on strings: a is a substring of name
Contains(name, a) ==
  \E i \in 0..(Len(name) - Len(a)) : SubSeq(name, i + 1, i + Len(a)) = a

\* the Python order on strings: lexicographic by code point
RECURSIVE StrLess(_, _)
StrLess(a, b) ==
  IF b = <<>> THEN FALSE
  ELSE IF a = <<>> THEN TRUE
  ELSE IF Head(a) # Head(b) THEN Ord(Head(a)) < Ord(Head(b))
  ELSE StrLess(Tail(a), Tail(b))

StrLeq(a, b) == a = b \/ StrLess(a, b)

(***************************************************************************)
(* Python values: None, float nan, str, int, and a finite decimal float    *)
(* m * 10^-e kept normalised (no trailing zero in the fraction).           *)
(***************************************************************************)
None == [t |-> "none"]

NaN == [t |-> "nan"]

Str(s) == [t |-> "str", v |-> s]

Num(n) == [t |-> "int", v |-> n]

RECURSIVE FloatNorm(_, _)
FloatNorm(m, e) ==
  IF e > 0 /\ m % 10 = 0 THEN FloatNorm(m \div 10, e - 1)
  ELSE [t |-> "float", v |-> <<m, e>>]

IsNone(x) == x.t = "none"

IsNaN(x) == x.t = "nan"

IsStr(x) == x.t = "str"

\* truth value of a Python object: None and "" are false, nan is true
Truthy(x) ==
  CASE x.t = "none" -> FALSE
    [] x.t = "str" -> x.v # <<>>
    [] x.t = "int" -> x.v # 0
    [] x.t = "float" -> x.v[1] # 0
    [] OTHER -> TRUE

RECURSIVE IntToStr(_)
IntToStr(n) ==
  IF n < 0 THEN <<"-">> \o IntToStr(0 - n)
  ELSE IF n < 10 THEN <<Digits[n + 1]>>
  ELSE IntToStr(n \div 10) \o <<Digits[(n % 10) + 1]>>

RECURSIVE Pow10(_)
Pow10(e) == IF e = 0 THEN 1 ELSE 10 * Pow10(e - 1)

RECURSIVE ZeroPad(_, _)
ZeroPad(s, w) == IF Len(s) >= w THEN s ELSE ZeroPad(<<"0">> \o s, w)

\* repr() of a float in positional notation
FloatToStr(m, e) ==
  LET a == IF m < 0 THEN 0 - m ELSE m
      sign == IF m < 0 THEN <<"-">> ELSE <<>>
  IN  IF e = 0 THEN sign \o IntToStr(a) \o <<".", "0">>
      ELSE sign \o IntToStr(a \div Pow10(e)) \o <<".">>
                \o ZeroPad(IntToStr(a % Pow10(e)), e)

\* str(v)
PyStr(x) ==
  CASE x.t = "none" -> <<"N","o","n","e">>
    [] x.t = "nan" -> <<"n","a","n">>
    [] x.t = "str" -> x.v
    [] x.t = "int" -> IntToStr(x.v)
    [] x.t = "float" -> FloatToStr(x.v[1], x.v[2])

AllDigits(s) == s # <<>> /\ \A i \in 1..Len(s) : IsDigit(s[i])

RECURSIVE DigitsVal(_)
DigitsVal(s) ==
  IF s = <<>> THEN 0 ELSE 10 * DigitsVal(SubSeq(s, 1, Len(s) - 1)) + DigitVal(s[Len(s)])

HasSign(s) == s # <<>> /\ Head(s) \in {"+", "-"}

Unsigned(s) == IF HasSign(s) THEN Tail(s) ELSE s

SignOf(s) == IF s # <<>> /\ Head(s) = "-" THEN 0 - 1 ELSE 1

(***************************************************************************)
(* int(v) as build_excel_map calls it.  IntRaises tells whether the call   *)
(* raises ValueError; IntValue is its result otherwise.  A float nan       *)
(* raises; a string is stripped and must be an optionally signed run of    *)
(* digits.                                                                 *)
(***************************************************************************)
IntRaises(x) ==
  CASE x.t = "str" -> ~ AllDigits(Unsigned(Strip(x.v)))
    [] x.t = "int" -> FALSE
    [] x.t = "float" -> FALSE
    [] OTHER -> TRUE

IntValue(x) ==
  CASE x.t = "str" -> Num(SignOf(Strip(x.v)) * DigitsVal(Unsigned(Strip(x.v))))
    [] x.t = "float" -> Num(x.v[1] \div Pow10(x.v[2]))
    [] OTHER -> x

(***************************************************************************)
(* Decimal(s): surrounding whitespace is ignored; accepted here are an     *)
(* optionally signed digit string with at most one point and at least one  *)
(* digit, and "nan" in any case.                                           *)
(***************************************************************************)
PointPos(s) == IF \E i \in 1..Len(s) : s[i] = "."
               THEN CHOOSE i \in 1..Len(s) : s[i] = "." /\ \A j \in 1..(i - 1) : s[j] # "."
               ELSE 0

IsDecimalNumber(u) ==
  LET p == PointPos(u)
      d == RemoveChar(u, ".")
  IN  /\ AllDigits(d)
      /\ Len(u) - Len(d) <= 1

DecimalNumber(sgn, u) ==
  LET p == PointPos(u)
      d == RemoveChar(u, ".")
      e == IF p = 0 THEN 0 ELSE Len(u) - p
  IN  FloatNorm(sgn * DigitsVal(d), e)

\* _to_money(v): None for None, float(Decimal(cleaned text)), None when
\* Decimal raises
_to_money(v) ==
  IF IsNone(v) THEN None
  ELSE LET s == Strip(RemoveChar(RemoveChar(Strip(PyStr(v)), "$"), ","))
           u == Unsigned(s)
       IN  IF Lower(u) = <<"n","a","n">> THEN NaN
           ELSE IF IsDecimalNumber(u) THEN DecimalNumber(SignOf(s), u)
           ELSE None

(***************************************************************************)
(* json.dumps(..., ensure_ascii=False, separators=(",", ":"))              *)
(***************************************************************************)
\* concatenation of parts[lo..hi], by halves
RECURSIVE Concat(_, _, _)
Concat(parts, lo, hi) ==
  IF lo > hi THEN <<>>
  ELSE IF lo = hi THEN parts[lo]
  ELSE LET mid == (lo + hi) \div 2
       IN  Concat(parts, lo, mid) \o Concat(parts, mid + 1, hi)

\* a quote or a backslash inside a string is escaped with a backslash
JsonEscape(s) ==
  Concat([i \in 1..Len(s) |-> IF s[i] \in {"\"", "\\"} THEN <<"\\", s[i]>> ELSE <<s[i]>>],
         1, Len(s))

JsonValue(x) ==
  CASE x.t = "none" -> <<"n","u","l","l">>
    [] x.t = "nan" -> <<"N","a","N">>
    [] x.t = "str" -> <<"\"">> \o JsonEscape(x.v) \o <<"\"">>
    [] x.t = "int" -> IntToStr(x.v)
    [] x.t = "float" -> FloatToStr(x.v[1], x.v[2])

\* a JSON array of already encoded elements
RECURSIVE JsonJoin(_)
JsonJoin(parts) ==
  IF parts = <<>> THEN <<>>
  ELSE IF Len(parts) = 1 THEN parts[1]
  ELSE parts[1] \o <<",">> \o JsonJoin(Tail(parts))

JsonArray(parts) == <<"[">> \o JsonJoin(parts) \o <<"]">>

JsonKey(k) == <<"\"">> \o k \o <<"\"", ":">>

JsonLab(l) ==
  <<"{">> \o JsonKey(<<"T","e","s","t","T","y","p","e","N","a","m","e">>)
          \o JsonValue(l.TestTypeName) \o <<",">>
          \o JsonKey(<<"T","e","s","t","R","e","s","u","l","t","L","e","v","e","l">>)
          \o JsonValue(l.TestResultLevel) \o <<"}">>

JsonItem(r) ==
  <<"{">> \o JsonKey(<<"I","d">>) \o JsonValue(r.Id) \o <<",">>
          \o JsonKey(<<"L","a","b","e","l">>) \o JsonValue(r.Label) \o <<",">>
          \o JsonKey(<<"I","t","e","m","N","a","m","e">>) \o JsonValue(r.ItemName) \o <<",">>
          \o JsonKey(<<"Q","u","a","n","t","i","t","y">>) \o JsonValue(r.Quantity) \o <<",">>
          \o JsonKey(<<"T","y","p","e">>) \o JsonValue(r.Type) \o <<",">>
          \o JsonKey(<<"P","r","i","c","e">>) \o JsonValue(r.Price) \o <<",">>
          \o JsonKey(<<"L","a","b","R","e","s","u","l","t","s">>)
          \o JsonArray([i \in 1..Len(r.LabResults) |-> JsonLab(r.LabResults[i])])
          \o <<"}">>

JsonRule(b) ==
  <<"{">> \o JsonKey(<<"P","r","o","d","u","c","t","G","r","o","u","p">>)
          \o JsonValue(b.ProductGroup) \o <<",">>
          \o JsonKey(<<"M","i","n","Q","t","y">>) \o JsonValue(b.MinQty) \o <<",">>
          \o JsonKey(<<"P","r","i","c","e">>) \o JsonValue(b.Price) \o <<"}">>

JsonDumps(payload) ==
  <<"{">> \o JsonKey(<<"i","t","e","m","s">>)
          \o JsonArray([i \in 1..Len(payload.items) |-> JsonItem(payload.items[i])])
          \o <<",">> \o JsonKey(<<"b","u","l","k","R","u","l","e","s">>)
          \o JsonArray([i \in 1..Len(payload.bulkRules) |-> JsonRule(payload.bulkRules[i])])
          \o <<"}">>

(***************************************************************************)
(* The content hash.  SHA-256 is abstracted by a pair of polynomial        *)
(* digests of the byte string together with its length: a deterministic    *)
(* function of the bytes that is not the bytes themselves.                 *)
(***************************************************************************)
HashModA == 46337

HashModB == 46327

HashBase == 131

\* HashBase^k modulo m, by halving k
RECURSIVE PowMod(_, _)
PowMod(k, m) ==
  IF k = 0 THEN 1
  ELSE LET r == PowMod(k \div 2, m)
       IN  IF k % 2 = 0 THEN (r * r) % m ELSE (((r * r) % m) * HashBase) % m

\* the polynomial digest of s[lo..hi] modulo m, by halves
RECURSIVE Digest(_, _, _, _)
Digest(s, lo, hi, m) ==
  IF lo > hi THEN 0
  ELSE IF lo = hi THEN Ord(s[lo]) % m
  ELSE LET mid == (lo + hi) \div 2
       IN  (Digest(s, lo, mid, m) * PowMod(hi - mid, m) + Digest(s, mid + 1, hi, m)) % m

Sha256(bytes) ==
  [t |-> "hex",
   v |-> <<Len(bytes), Digest(bytes, 1, Len(bytes), HashModA),
           Digest(bytes, 1, Len(bytes), HashModB)>>]

(***************************************************************************)
(* Program constants.                                                      *)
(***************************************************************************)
ROOMS ==
  { <<"v","a","u","l","t"," ","-"," ","f","i","n","i","s","h","e","d"," ","g","o","o","d","s">>,
    <<"l","o","w"," ","i","n","v","e","n","t","o","r","y">> }

ANALYTES ==
  << <<"t","h","c">>, <<"t","h","c","a">>, <<"c","b","d">>, <<"c","b","d","a">>,
     <<"c","b","g">>, <<"c","b","c">>, <<"c","b","n">>,
     <<"l","i","m","o","n","e","n","e">>, <<"m","y","r","c","e","n","e">>,
     <<"p","i","n","e","n","e">>, <<"l","i","n","a","l","o","o","l">>,
     <<"c","a","r","y","o","p","h","y","l","l","e","n","e">> >>

(***************************************************************************)
(* Files.  A path holds no file, an unreadable file, a workbook, or bytes. *)
(***************************************************************************)
Absent == [t |-> "absent"]

Corrupt == [t |-> "corrupt"]

File(bytes) == [t |-> "file", v |-> bytes]

\* the digest never fed with the chunks of the file
file_hash_unfed(f) == IF f.t = "absent" THEN None ELSE Sha256(<<>>)

\* file_hash(path): None when the path does not exist, else the digest
file_hash(f) == IF f.t = "absent" THEN None ELSE Sha256(f.v)

(***************************************************************************)
(* build_excel_map.  A workbook is                                         *)
(*   [t |-> "xlsx", products, hasBulkRules, columns, rules]                *)
(* products and rules are the rows of the two sheets; a cell read with     *)
(* dtype=str is a Str or, when empty, float nan; row.get of a column the   *)
(* sheet does not have is None.                                            *)
(***************************************************************************)
Cell(columns, row, col) == IF col \in columns THEN row[col] ELSE None

\* rows of the first sheet kept by the Product filter
ProductKept(row) == ~ IsNaN(row.Product) /\ Strip(PyStr(row.Product)) # <<>>

RECURSIVE ProductMap(_, _)
ProductMap(rows, acc) ==
  IF rows = <<>> THEN acc
  ELSE LET row == Head(rows)
           name == Strip(PyStr(row.Product))
           entry == [price |-> _to_money(row.Price),
                     type  |-> IF IsNaN(row.Type) THEN None
                               ELSE Str(Strip(PyStr(row.Type)))]
       IN  IF ProductKept(row)
           THEN ProductMap(Tail(rows),
                  [n \in (DOMAIN acc) \cup {name} |-> IF n = name THEN entry ELSE acc[n]])
           ELSE ProductMap(Tail(rows), acc)

\* the test  if pg and mq and pr  of the bulk-rules loop
RuleTaken(columns, row) ==
  /\ Truthy(Cell(columns, row, "ProductGroup"))
  /\ Truthy(Cell(columns, row, "MinQty"))
  /\ Truthy(Cell(columns, row, "Price"))

\* the rule appended for a taken row
RuleOf(columns, row) ==
  [ProductGroup |-> Str(Strip(PyStr(Cell(columns, row, "ProductGroup")))),
   MinQty       |-> IntValue(Cell(columns, row, "MinQty")),
   Price        |-> _to_money(Cell(columns, row, "Price"))]

RECURSIVE BulkRulesOf(_, _)
BulkRulesOf(columns, rows) ==
  IF rows = <<>> THEN <<>>
  ELSE IF RuleTaken(columns, Head(rows))
       THEN <<RuleOf(columns, Head(rows))>> \o BulkRulesOf(columns, Tail(rows))
       ELSE BulkRulesOf(columns, Tail(rows))

\* build_excel_map raises: the workbook cannot be opened, or int(mq) raises
\* on a taken row
build_excel_map_raises(f) ==
  \/ f.t # "xlsx"
  \/ /\ f.hasBulkRules
     /\ \E i \in 1..Len(f.rules) :
          /\ RuleTaken(f.columns, f.rules[i])
          /\ IntRaises(Cell(f.columns, f.rules[i], "MinQty"))

\* build_excel_map: the pair (product_map, bulk_rules)
build_excel_map(f) ==
  [product_map |-> ProductMap(f.products, << >>),
   bulk_rules  |-> IF f.hasBulkRules THEN BulkRulesOf(f.columns, f.rules) ELSE <<>>]

(***************************************************************************)
(* STEP 1: the body of the page loop.  packages_map is a dict: a sequence  *)
(* of records in insertion order, at most one per Id; assigning an Id      *)
(* already present replaces the record in place.                           *)
(***************************************************************************)
\* the location filter left out
Retained_all(pkg) == TRUE

\* the location filter
Retained(pkg) == Lower(pkg.LocationName.v) \in ROOMS

\* item name: the nested Item.Name when truthy, else the flat ItemName
ItemNameOf(pkg) ==
  LET nested == IF pkg.Item.t = "dict" THEN pkg.Item.Name ELSE None
  IN  IF Truthy(nested) THEN nested ELSE pkg.ItemName

\* excel_map.get(name, {}).get(field)
ExcelGet(excel, name, field) ==
  IF name \in DOMAIN excel THEN excel[name][field] ELSE None

\* the lookup made with the name as received, blanks included
PackageRecord_untrimmed(pkg, excel) ==
  LET raw == PyStr(ItemNameOf(pkg))
  IN  [Id       |-> pkg.Id,
       Label    |-> pkg.Label,
       ItemName |-> Str(Strip(raw)),
       Quantity |-> pkg.Quantity,
       Type     |-> ExcelGet(excel, raw, "type"),
       Price    |-> ExcelGet(excel, raw, "price")]

PackageRecord(pkg, excel) ==
  LET name == Strip(PyStr(ItemNameOf(pkg)))
  IN  [Id       |-> pkg.Id,
       Label    |-> pkg.Label,
       ItemName |-> Str(name),
       Quantity |-> pkg.Quantity,
       Type     |-> ExcelGet(excel, name, "type"),
       Price    |-> ExcelGet(excel, name, "price")]

\* a record kept only when its Id is new
DictPut_first(map, rec) ==
  IF \E i \in 1..Len(map) : map[i].Id = rec.Id THEN map ELSE Append(map, rec)

\* packages_map[rec["Id"]] = rec
DictPut(map, rec) ==
  IF \E i \in 1..Len(map) : map[i].Id = rec.Id
  THEN [i \in 1..Len(map) |-> IF map[i].Id = rec.Id THEN rec ELSE map[i]]
  ELSE Append(map, rec)

RECURSIVE ProcessPage(_, _, _)
ProcessPage(map, data, excel) ==
  IF data = <<>> THEN map
  ELSE IF Retained(Head(data))
       THEN ProcessPage(DictPut(map, PackageRecord(Head(data), excel)), Tail(data), excel)
       ELSE ProcessPage(map, Tail(data), excel)

\* data.get("TotalPages", 1)
TotalPagesOf(resp) == IF IsNone(resp.TotalPages) THEN 1 ELSE resp.TotalPages.v

\* the loop stopping one page early
LastPage_early(p, resp) == p + 1 >= TotalPagesOf(resp)

\* the loop exit test  page >= data.get("TotalPages", 1)
LastPage(p, resp) == p >= TotalPagesOf(resp)

\* the status check left out
RaiseForStatus_ignored(resp) == FALSE

\* resp.raise_for_status() raises
RaiseForStatus(resp) == resp.status # 200

(***************************************************************************)
(* STEP 2: lab results.                                                    *)
(***************************************************************************)
\* any(a in name for a in ANALYTES) with name = (TestTypeName or "").lower()
\* the name compared as received, not lowercased
IsAnalyte_cased(rec) ==
  LET name == IF Truthy(rec.TestTypeName) THEN rec.TestTypeName.v ELSE <<>>
  IN  \E k \in 1..Len(ANALYTES) : Contains(name, ANALYTES[k])

IsAnalyte(rec) ==
  LET name == IF Truthy(rec.TestTypeName) THEN Lower(rec.TestTypeName.v) ELSE <<>>
  IN  \E k \in 1..Len(ANALYTES) : Contains(name, ANALYTES[k])

RECURSIVE KeptLabs(_)
KeptLabs(data) ==
  IF data = <<>> THEN <<>>
  ELSE IF IsAnalyte(Head(data))
       THEN <<[TestTypeName |-> Head(data).TestTypeName,
               TestResultLevel |-> Head(data).TestResultLevel]>> \o KeptLabs(Tail(data))
       ELSE KeptLabs(Tail(data))

\* what the loop appends for one response: the kept records of a 200
\* response, nothing for any other status
LabsAppended(lr) == IF lr.status = 200 THEN KeptLabs(lr.Data) ELSE <<>>

\* every status other than 200 raising
LabRaises_strict(lr) == lr.status # 200

\* the lab loop has no raise_for_status: no status ends the run
LabRaises(lr) == FALSE

\* the sort key  x["TestTypeName"] or ""
LabKey(l) == IF Truthy(l.TestTypeName) THEN l.TestTypeName.v ELSE <<>>

\* sorted(): stable insertion of x into the sorted sequence s
RECURSIVE InsertLab(_, _)
InsertLab(s, x) ==
  IF s = <<>> THEN <<x>>
  ELSE IF StrLess(LabKey(x), LabKey(Head(s))) THEN <<x>> \o s
  ELSE <<Head(s)>> \o InsertLab(Tail(s), x)

\* the lab lists left in the order of arrival
SortLabs_unsorted(s) == s

RECURSIVE SortLabs(_)
SortLabs(s) ==
  IF s = <<>> THEN <<>> ELSE InsertLab(SortLabs(SubSeq(s, 1, Len(s) - 1)), s[Len(s)])

(***************************************************************************)
(* BUILD FINAL JSON                                                        *)
(***************************************************************************)
RECURSIVE InsertPkg(_, _)
InsertPkg(s, x) ==
  IF s = <<>> THEN <<x>>
  ELSE IF x.Id.v < Head(s).Id.v THEN <<x>> \o s
  ELSE <<Head(s)>> \o InsertPkg(Tail(s), x)

\* the records left in the order of their arrival
SortPackages_unsorted(s) == s

\* sorted(packages_map.values(), key=lambda x: x["Id"])
RECURSIVE SortPackages(_)
SortPackages(s) ==
  IF s = <<>> THEN <<>> ELSE InsertPkg(SortPackages(SubSeq(s, 1, Len(s) - 1)), s[Len(s)])

\* lab_by_pkg.get(pid, [])
LabsGet(labs, pid) == IF pid \in DOMAIN labs THEN labs[pid] ELSE <<>>

FinalOf(map, labs) ==
  LET sorted == SortPackages(map)
  IN  [i \in 1..Len(sorted) |->
        [Id         |-> sorted[i].Id,
         Label      |-> sorted[i].Label,
         ItemName   |-> sorted[i].ItemName,
         Quantity   |-> sorted[i].Quantity,
         Type       |-> sorted[i].Type,
         Price      |-> sorted[i].Price,
         LabResults |-> LabsGet(labs, sorted[i].Id.v)]]

\* a missing artifact taken for "no change"
NoChange_lenient(old, new) == IsNone(old) \/ old = new

\* the change test  old_hash == new_hash
NoChange(old, new) == old = new

(***************************************************************************)
(* Upstream data the runs are explored on.                                 *)
(***************************************************************************)
MaxPages == 3

MaxLabs == 2

MaxRules == 2

MaxRuns == 2

MaxProducts == 2

\* inventory records as the API returns them
pkgA == [Id |-> Num(1), Label |-> Str(<<"A","1">>),
         LocationName |-> Str(<<"V","a","u","l","t"," ","-"," ","F","i","n","i","s","h","e","d"," ","G","o","o","d","s">>),
         Item |-> [t |-> "dict", Name |-> Str(<<"O","G"," ">>)], ItemName |-> None,
         Quantity |-> Num(3)]

pkgB == [Id |-> Num(2), Label |-> Str(<<"B","1">>),
         LocationName |-> Str(<<"l","o","w"," ","i","n","v","e","n","t","o","r","y">>),
         Item |-> None, ItemName |-> Str(<<"K","u","s","h">>),
         Quantity |-> Num(5)]

pkgC == [Id |-> Num(1), Label |-> Str(<<"A","2">>),
         LocationName |-> Str(<<"Q","u","a","r","a","n","t","i","n","e">>),
         Item |-> [t |-> "dict", Name |-> Str(<<"O","G">>)], ItemName |-> None,
         Quantity |-> Num(4)]

pkgD == [Id |-> Num(2), Label |-> Str(<<"B","2">>),
         LocationName |-> Str(<<"L","O","W"," ","I","N","V","E","N","T","O","R","Y">>),
         Item |-> [t |-> "dict", Name |-> None], ItemName |-> Str(<<"H","a","z","e">>),
         Quantity |-> Num(6)]

pkgE == [Id |-> Num(3), Label |-> Str(<<"C","1">>),
         LocationName |-> Str(<<"Q","u","a","r","a","n","t","i","n","e">>),
         Item |-> None, ItemName |-> None,
         Quantity |-> Num(7)]

UnitIds == {1, 2, 3}

\* the contents a page is drawn from: units out of id order, a repeated id
\* across pages and within one page, disallowed locations, an empty page
PageChoices == { <<pkgB, pkgA>>, <<pkgC, pkgD>>, <<pkgD, pkgE, pkgB>>, <<>> }

PageData(p) == IF p % 2 = 1 THEN <<pkgB, pkgA>> ELSE <<pkgC, pkgD>>

TotalChoices == {None} \cup {Num(n) : n \in 1..MaxPages}

\* every page succeeds and reports the same total; the contents vary
InventoryRich ==
  { [p \in 1..MaxPages |-> [status |-> 200, Data |-> d[p], TotalPages |-> Num(T)]] :
      d \in [1..MaxPages -> PageChoices], T \in 1..MaxPages }

\* one page answers with a server error
InventoryFailing ==
  { [p \in 1..MaxPages |-> [status |-> IF p = f THEN 500 ELSE 200,
                            Data |-> IF p = f THEN <<>> ELSE PageData(p),
                            TotalPages |-> IF p = f THEN None ELSE Num(T)]] :
      f \in 1..MaxPages, T \in 1..MaxPages }

\* the reported total varies from response to response, or is missing
InventoryUneven ==
  { [p \in 1..MaxPages |-> [status |-> 200, Data |-> PageData(p), TotalPages |-> tot[p]]] :
      tot \in [1..MaxPages -> TotalChoices] }

InventoryOne == [p \in 1..MaxPages |-> [status |-> 200, Data |-> PageData(p), TotalPages |-> Num(1)]]

InventoryOther == [p \in 1..MaxPages |-> [status |-> 200, Data |-> PageData(p + 1), TotalPages |-> Num(1)]]

\* lab records as the API returns them
labTHC == [TestTypeName |-> Str(<<"T","H","C">>), TestResultLevel |-> Str(<<"2","1",".","4">>), LabFacility |-> Str(<<"x">>)]

labMoisture == [TestTypeName |-> Str(<<"M","o","i","s","t","u","r","e">>), TestResultLevel |-> Str(<<"9">>), LabFacility |-> Str(<<"x">>)]

labCBD == [TestTypeName |-> Str(<<"C","B","D">>), TestResultLevel |-> Str(<<"0",".","5">>), LabFacility |-> Str(<<"x">>)]

labTHCa == [TestTypeName |-> Str(<<"T","H","C","a">>), TestResultLevel |-> Str(<<"1">>), LabFacility |-> Str(<<"x">>)]

labNull == [TestTypeName |-> None, TestResultLevel |-> Str(<<"1">>), LabFacility |-> Str(<<"x">>)]

LabRecs == {labTHC, labMoisture, labCBD, labTHCa, labNull}

LabSeqs == UNION { [1..n -> LabRecs] : n \in 0..MaxLabs }

LabOk(data) == [status |-> 200, Data |-> data]

LabNotFound == [status |-> 404, Data |-> <<>>]

LabError == [status |-> 500, Data |-> <<>>]

LabsOne == [u \in UnitIds |-> IF u = 1 THEN LabOk(<<labTHC, labMoisture>>) ELSE LabNotFound]

LabsRich ==
  { [u \in UnitIds |-> IF u = 1 THEN a ELSE IF u = 2 THEN b ELSE LabNotFound] :
      a \in {LabOk(d) : d \in LabSeqs} \cup {LabNotFound, LabError},
      b \in {LabOk(<<labTHCa, labCBD, labTHC>>), LabNotFound, LabError} }

\* spreadsheet rows
Products ==
  << [Product |-> Str(<<"O","G">>), Price |-> Str(<<"$","4","5",".","0","0">>), Type |-> Str(<<"F","l","o","w","e","r">>)],
     [Product |-> NaN, Price |-> Str(<<"5">>), Type |-> Str(<<"x">>)],
     [Product |-> Str(<<" ","K","u","s","h"," ">>), Price |-> Str(<<"x">>), Type |-> NaN] >>

AllColumns == {"ProductGroup", "MinQty", "Price"}

RuleRows ==
  { [ProductGroup |-> Str(<<"F","l","o","w","e","r">>), MinQty |-> Str(<<"5">>), Price |-> Str(<<"$","4",".","5","0">>)],
    [ProductGroup |-> Str(<<"P","r","e","r","o","l","l">>), MinQty |-> Str(<<" ","1","0"," ">>), Price |-> Str(<<"1",",","0","0","0">>)],
    [ProductGroup |-> Str(<<"F","l","o","w","e","r">>), MinQty |-> Str(<<"5">>), Price |-> Str(<<"x">>)],
    [ProductGroup |-> Str(<<"F","l","o","w","e","r">>), MinQty |-> Str(<<"5">>), Price |-> NaN],
    [ProductGroup |-> Str(<<"F","l","o","w","e","r">>), MinQty |-> Str(<<"x">>), Price |-> Str(<<"5">>)],
    [ProductGroup |-> Str(<<"F","l","o","w","e","r">>), MinQty |-> NaN, Price |-> Str(<<"5">>)],
    [ProductGroup |-> NaN, MinQty |-> Str(<<"5">>), Price |-> Str(<<"5">>)] }

RuleSeqs == UNION { [1..n -> RuleRows] : n \in 0..MaxRules }

Workbook(hasRules, columns, rules) ==
  [t |-> "xlsx", products |-> Products, hasBulkRules |-> hasRules,
   columns |-> columns, rules |-> rules]

WorkbookOne ==
  Workbook(TRUE, AllColumns,
           <<[ProductGroup |-> Str(<<"F","l","o","w","e","r">>), MinQty |-> Str(<<"5">>), Price |-> Str(<<"$","4",".","5","0">>)]>>)

WorkbooksRich ==
  { Workbook(TRUE, c, r) : c \in {AllColumns, AllColumns \ {"Price"}}, r \in RuleSeqs }
  \cup { Workbook(FALSE, {}, <<>>) }

\* rows of the product sheet: names differing in case only, a name with
\* trailing blanks, an empty type cell, an empty name cell
ProductRows ==
  { [Product |-> Str(<<"O","G">>), Price |-> Str(<<"$","4","5",".","0","0">>), Type |-> Str(<<"F","l","o","w","e","r">>)],
    [Product |-> Str(<<"o","g">>), Price |-> Str(<<"3","0">>), Type |-> Str(<<"P","r","e","r","o","l","l">>)],
    [Product |-> Str(<<"O","G"," ">>), Price |-> Str(<<"1","2">>), Type |-> Str(<<"S","h","a","k","e">>)],
    [Product |-> Str(<<"K","u","s","h">>), Price |-> Str(<<"2",".","5">>), Type |-> NaN],
    [Product |-> NaN, Price |-> Str(<<"5">>), Type |-> Str(<<"x">>)] }

ProductSeqs == UNION { [1..n -> ProductRows] : n \in 0..MaxProducts }

WorkbooksProducts ==
  { [t |-> "xlsx", products |-> p, hasBulkRules |-> FALSE, columns |-> {}, rules |-> <<>>] :
      p \in ProductSeqs }

\* what the sync of the spreadsheet can meet: the remote workbook, whether
\* rclone succeeds, and the file already at the local path
ExcelOne == [remote |-> WorkbookOne, rclone |-> TRUE, local |-> Absent]

ExcelTroubles ==
  { [remote |-> WorkbookOne, rclone |-> FALSE, local |-> Absent],
    [remote |-> WorkbookOne, rclone |-> FALSE, local |-> Workbook(FALSE, {}, <<>>)],
    [remote |-> Corrupt, rclone |-> TRUE, local |-> WorkbookOne] }

\* a menu.json published by somebody else
ExternalJson == <<"[", "]">>

(***************************************************************************)
(* State.                                                                  *)
(***************************************************************************)
VARIABLES
  remoteExcel,   \* the workbook at RCLONE_REMOTE
  rcloneOk,      \* whether rclone copyto succeeds
  invPages,      \* the inventory API: page number -> response
  labResp,       \* the lab API: unit id -> response
  localExcel,    \* the file at LOCAL_EXCEL
  menuFile,      \* the file at OUTPUT_PATH in the working tree
  index,         \* menu.json as staged
  localHead,     \* menu.json in the local HEAD commit
  remoteHead,    \* menu.json at origin/main
  ahead,         \* the local branch has commits the remote lacks
  pc,            \* position of the script
  exitCode,      \* -1 while running, then the exit status
  excel_map, bulk_rules, page, packages_map, lab_by_pkg,
  labIdx,        \* position of the lab loop in packages_map
  payload, new_json, old_hash, new_hash,
  ops,           \* external operations of this run, in order
  served,        \* inventory records received in this run, in order
  runsLeft,      \* invocations the scheduler still makes
  changed,       \* upstream data changed since the last run started
  prev,          \* what the previous run did
  menuAtStart    \* the file at OUTPUT_PATH when this run started

upstreamVars == <<remoteExcel, rcloneOk, invPages, labResp>>

gitVars == <<index, localHead, remoteHead, ahead>>

progVars == <<excel_map, bulk_rules, page, packages_map, lab_by_pkg, labIdx,
              payload, new_json, old_hash, new_hash>>

schedVars == <<runsLeft, changed, prev, menuAtStart>>

vars == <<remoteExcel, rcloneOk, invPages, labResp, localExcel, menuFile,
          index, localHead, remoteHead, ahead, pc, exitCode,
          excel_map, bulk_rules, page, packages_map, lab_by_pkg, labIdx,
          payload, new_json, old_hash, new_hash, ops, served,
          runsLeft, changed, prev, menuAtStart>>

NoPrev == [ran |-> FALSE, built |-> FALSE, json |-> <<>>, exit |-> 0, ops |-> <<>>, same |-> TRUE]

\* the script's variables before its first statement
Fresh ==
  /\ pc = "step0"
  /\ exitCode = 0 - 1
  /\ excel_map = << >>
  /\ bulk_rules = <<>>
  /\ page = 1
  /\ packages_map = <<>>
  /\ lab_by_pkg = << >>
  /\ labIdx = 1
  /\ payload = [items |-> <<>>, bulkRules |-> <<>>]
  /\ new_json = <<>>
  /\ old_hash = None
  /\ new_hash = None
  /\ ops = <<>>
  /\ served = <<>>

\* the upstream data: one source varies richly while the others are fixed;
\* the repeated runs are explored on the fixed data
Upstreams ==
  { [excel |-> ExcelOne, inv |-> i, labs |-> LabsOne, runs |-> 1] :
      i \in InventoryRich \cup InventoryFailing \cup InventoryUneven }
  \cup { [excel |-> ExcelOne, inv |-> InventoryOne, labs |-> l, runs |-> 1] : l \in LabsRich }
  \cup { [excel |-> [remote |-> w, rclone |-> TRUE, local |-> Absent],
          inv |-> InventoryOne, labs |-> LabsOne, runs |-> 1] :
            w \in WorkbooksRich \cup WorkbooksProducts }
  \cup { [excel |-> e, inv |-> InventoryOne, labs |-> LabsOne, runs |-> 1] : e \in ExcelTroubles }
  \cup { [excel |-> ExcelOne, inv |-> InventoryOne, labs |-> LabsOne, runs |-> MaxRuns] }

Init ==
  /\ \E u \in Upstreams :
       /\ remoteExcel = u.excel.remote
       /\ rcloneOk = u.excel.rclone
       /\ localExcel = u.excel.local
       /\ invPages = u.inv
       /\ labResp = u.labs
       /\ runsLeft = u.runs - 1
  /\ menuFile \in {Absent, File(ExternalJson)}
  /\ menuAtStart = menuFile
  /\ index = menuFile
  /\ localHead = menuFile
  /\ remoteHead = menuFile
  /\ ahead = FALSE
  /\ changed = FALSE
  /\ prev = NoPrev
  /\ Fresh

(***************************************************************************)
(* The script, one action per external interaction.  An uncaught           *)
(* exception ends the process with exit status 1.                          *)
(***************************************************************************)
Op(name, arg, status) == [op |-> name, arg |-> arg, status |-> status]

Exit(code) == pc' = "done" /\ exitCode' = code

\* the inventory API answers a page past its last one with an empty page
InventoryResponse(p) ==
  IF p \in DOMAIN invPages THEN invPages[p]
  ELSE [status |-> 200, Data |-> <<>>, TotalPages |-> Num(0)]

\* STEP 0: rclone copyto (check=False), then build_excel_map(LOCAL_EXCEL)
Step0 ==
  /\ pc = "step0"
  /\ LET local == IF rcloneOk THEN remoteExcel ELSE localExcel
     IN  /\ localExcel' = local
         /\ ops' = Append(ops, Op("rclone", 0, IF rcloneOk THEN 0 ELSE 1))
         /\ IF build_excel_map_raises(local)
            THEN /\ Exit(1)
                 /\ UNCHANGED <<excel_map, bulk_rules>>
            ELSE /\ pc' = "step1"
                 /\ excel_map' = build_excel_map(local).product_map
                 /\ bulk_rules' = build_excel_map(local).bulk_rules
                 /\ UNCHANGED exitCode
  /\ UNCHANGED <<upstreamVars, menuFile, gitVars, page, packages_map, lab_by_pkg,
                 labIdx, payload, new_json, old_hash, new_hash, served, schedVars>>

\* STEP 1: one turn of the page loop
FetchPage ==
  /\ pc = "step1"
  /\ LET resp == InventoryResponse(page)
     IN  /\ ops' = Append(ops, Op("page", page, resp.status))
         /\ IF RaiseForStatus(resp)
            THEN /\ Exit(1)
                 /\ UNCHANGED <<page, packages_map, lab_by_pkg, served>>
            ELSE /\ packages_map' = ProcessPage(packages_map, resp.Data, excel_map)
                 /\ served' = served \o resp.Data
                 /\ UNCHANGED exitCode
                 /\ IF LastPage(page, resp)
                    THEN /\ pc' = "step2"
                         /\ lab_by_pkg' =
                              [pid \in {packages_map'[i].Id.v : i \in 1..Len(packages_map')} |-> <<>>]
                         /\ UNCHANGED page
                    ELSE /\ page' = page + 1
                         /\ UNCHANGED <<pc, lab_by_pkg>>
  /\ UNCHANGED <<upstreamVars, localExcel, menuFile, gitVars, excel_map, bulk_rules,
                 labIdx, payload, new_json, old_hash, new_hash, schedVars>>

\* STEP 2: one turn of the lab loop, in the order of packages_map
FetchLab ==
  /\ pc = "step2"
  /\ labIdx <= Len(packages_map)
  /\ LET pid == packages_map[labIdx].Id.v
         lr == labResp[pid]
     IN  /\ ops' = Append(ops, Op("lab", pid, lr.status))
         /\ IF LabRaises(lr)
            THEN /\ Exit(1)
                 /\ UNCHANGED <<lab_by_pkg, labIdx>>
            ELSE /\ lab_by_pkg' = [lab_by_pkg EXCEPT ![pid] = @ \o LabsAppended(lr)]
                 /\ labIdx' = labIdx + 1
                 /\ UNCHANGED <<pc, exitCode>>
  /\ UNCHANGED <<upstreamVars, localExcel, menuFile, gitVars, excel_map, bulk_rules,
                 page, packages_map, payload, new_json, old_hash, new_hash,
                 served, schedVars>>

\* the lab sort, BUILD FINAL JSON and CHANGE DETECTION
BuildAndDetect ==
  /\ pc = "step2"
  /\ labIdx > Len(packages_map)
  /\ LET sortedLabs == [pid \in DOMAIN lab_by_pkg |-> SortLabs(lab_by_pkg[pid])]
         pl == [items |-> FinalOf(packages_map, sortedLabs), bulkRules |-> bulk_rules]
         js == JsonDumps(pl)
         oh == file_hash(menuFile)
         nh == Sha256(js)
     IN  /\ lab_by_pkg' = sortedLabs
         /\ payload' = pl
         /\ new_json' = js
         /\ old_hash' = oh
         /\ new_hash' = nh
         /\ IF NoChange(oh, nh)
            THEN Exit(0)
            ELSE pc' = "pull" /\ UNCHANGED exitCode
  /\ UNCHANGED <<upstreamVars, localExcel, menuFile, gitVars, excel_map, bulk_rules,
                 page, packages_map, labIdx, ops, served, schedVars>>

\* git pull --rebase origin main; a failure exits 1.  A successful pull
\* that finds new remote commits and no local ones fast-forwards the
\* working tree; local commits are replayed on top of the remote ones.
\* the status of the pull not looked at
PullFails_ignored(status) == FALSE

\* if os.system("git pull --rebase origin main") != 0
PullFails(status) == status # 0

GitPull ==
  /\ pc = "pull"
  /\ \E ok \in BOOLEAN :
       LET status == IF ok THEN 0 ELSE 1
       IN  /\ ops' = Append(ops, Op("pull", 0, status))
           /\ IF ok /\ ~ ahead /\ remoteHead # localHead
              THEN /\ localHead' = remoteHead
                   /\ index' = remoteHead
                   /\ menuFile' = remoteHead
              ELSE UNCHANGED <<localHead, index, menuFile>>
           /\ IF PullFails(status)
              THEN Exit(1)
              ELSE pc' = "write" /\ UNCHANGED exitCode
  /\ UNCHANGED <<upstreamVars, localExcel, remoteHead, ahead, progVars, served, schedVars>>

\* open(OUTPUT_PATH, "w") and f.write(new_json): open can fail and leave
\* the file alone, the write can fail after open has truncated the file
WriteFile ==
  /\ pc = "write"
  /\ \E r \in {"ok", "open_fails", "write_fails"} :
       /\ ops' = Append(ops, Op("write", 0, IF r = "ok" THEN 0 ELSE 1))
       /\ menuFile' = CASE r = "ok" -> File(new_json)
                        [] r = "open_fails" -> menuFile
                        [] r = "write_fails" -> File(<<>>)
       /\ IF r = "ok" THEN pc' = "add" /\ UNCHANGED exitCode ELSE Exit(1)
  /\ UNCHANGED <<upstreamVars, localExcel, gitVars, progVars, served, schedVars>>

\* os.system('git add menu.json'), status ignored
GitAdd ==
  /\ pc = "add"
  /\ \E ok \in BOOLEAN :
       /\ ops' = Append(ops, Op("add", 0, IF ok THEN 0 ELSE 1))
       /\ index' = IF ok THEN menuFile ELSE index
  /\ pc' = "commit"
  /\ UNCHANGED <<upstreamVars, localExcel, menuFile, localHead, remoteHead, ahead,
                 exitCode, progVars, served, schedVars>>

\* os.system('git commit ...'), status ignored; nothing staged is a failure
GitCommit ==
  /\ pc = "commit"
  /\ \E ok \in BOOLEAN :
       LET done == ok /\ index # localHead
       IN  /\ ops' = Append(ops, Op("commit", 0, IF done THEN 0 ELSE 1))
           /\ localHead' = IF done THEN index ELSE localHead
           /\ ahead' = (ahead \/ done)
  /\ pc' = "push"
  /\ UNCHANGED <<upstreamVars, localExcel, menuFile, index, remoteHead,
                 exitCode, progVars, served, schedVars>>

\* os.system("git push origin main"), status ignored; then print SUCCESS
\* and the script ends
GitPush ==
  /\ pc = "push"
  /\ \E ok \in BOOLEAN :
       /\ ops' = Append(ops, Op("push", 0, IF ok THEN 0 ELSE 1))
       /\ remoteHead' = IF ok THEN localHead ELSE remoteHead
       /\ ahead' = IF ok THEN FALSE ELSE ahead
  /\ Exit(0)
  /\ UNCHANGED <<upstreamVars, localExcel, menuFile, index, localHead,
                 progVars, served, schedVars>>

(***************************************************************************)
(* The environment between runs.                                           *)
(***************************************************************************)
\* the scheduler starts the script again
Restart ==
  /\ pc = "done"
  /\ runsLeft > 0
  /\ runsLeft' = runsLeft - 1
  /\ prev' = [ran |-> TRUE, built |-> new_json # <<>>, json |-> new_json,
              exit |-> exitCode, ops |-> ops, same |-> ~ changed]
  /\ changed' = FALSE
  /\ menuAtStart' = menuFile
  /\ pc' = "step0"
  /\ exitCode' = 0 - 1
  /\ excel_map' = << >>
  /\ bulk_rules' = <<>>
  /\ page' = 1
  /\ packages_map' = <<>>
  /\ lab_by_pkg' = << >>
  /\ labIdx' = 1
  /\ payload' = [items |-> <<>>, bulkRules |-> <<>>]
  /\ new_json' = <<>>
  /\ old_hash' = None
  /\ new_hash' = None
  /\ ops' = <<>>
  /\ served' = <<>>
  /\ UNCHANGED <<upstreamVars, localExcel, menuFile, gitVars>>

\* the inventory changes before the next run
UpstreamChange ==
  /\ pc = "done"
  /\ runsLeft > 0
  /\ ~ changed
  /\ invPages' = IF invPages = InventoryOne THEN InventoryOther ELSE InventoryOne
  /\ changed' = TRUE
  /\ UNCHANGED <<remoteExcel, rcloneOk, labResp, localExcel, menuFile, gitVars,
                 pc, exitCode, progVars, ops, served, runsLeft, prev, menuAtStart>>

\* somebody else pushes another menu.json to the remote
ExternalCommit ==
  /\ pc = "done"
  /\ runsLeft > 0
  /\ remoteHead # File(ExternalJson)
  /\ remoteHead' = File(ExternalJson)
  /\ UNCHANGED <<upstreamVars, localExcel, menuFile, index, localHead, ahead,
                 pc, exitCode, progVars, ops, served, schedVars>>

Next ==
  \/ Step0
  \/ FetchPage
  \/ FetchLab
  \/ BuildAndDetect
  \/ GitPull
  \/ WriteFile
  \/ GitAdd
  \/ GitCommit
  \/ GitPush
  \/ Restart
  \/ UpstreamChange
  \/ ExternalCommit

Spec == Init /\ [][Next]_vars

(***************************************************************************)
(* Vocabulary of the properties.                                           *)
(***************************************************************************)
PublishOps == {"pull", "write", "add", "commit", "push"}

NoPublish(o) == \A i \in 1..Len(o) : o[i].op \notin PublishOps

Built == new_json # <<>>

\* the page numbers requested in this run, in order
PageRequests ==
  LET pageOps == SelectSeq(ops, LAMBDA o : o.op = "page")
  IN  [i \in 1..Len(pageOps) |-> pageOps[i].arg]

\* the page loop is over and was entered
FetchOver == pc \notin {"step0", "step1"} /\ PageRequests # <<>>

Allowed(pkg) == Lower(pkg.LocationName.v) \in ROOMS

RetainedIds == {packages_map[i].Id.v : i \in 1..Len(packages_map)}

\* the source reports the total N on each of its first N pages, all successful
ConsistentTotal(N) ==
  \A p \in 1..N : invPages[p].status = 200 /\ invPages[p].TotalPages = Num(N)

AllowedIdsOfPages(N) ==
  UNION { {invPages[p].Data[k].Id.v : k \in {j \in 1..Len(invPages[p].Data) : Allowed(invPages[p].Data[j])}} :
          p \in 1..N }

----------------------------------------------------------------------------
\* C1: when an inventory page request returns a non-success status, that
\* request is the last external operation of the run: the run is over with
\* a non-zero exit status, and before it there were only the spreadsheet
\* sync and page requests (no lab request, pull, write, commit or push).
C1_InventoryFailureAborts ==
  \A i \in 1..Len(ops) :
    (ops[i].op = "page" /\ ops[i].status # 200) =>
      /\ i = Len(ops)
      /\ pc = "done"
      /\ exitCode > 0
      /\ \A j \in 1..Len(ops) : ops[j].op \in {"rclone", "page"}

\* a later page fails after an earlier page delivered retained units
C1_Witness ==
  /\ Len(ops) >= 3
  /\ ops[Len(ops)].op = "page"
  /\ ops[Len(ops)].status # 200
  /\ packages_map # <<>>
  /\ pc = "done"

----------------------------------------------------------------------------
\* C2: a failed pull, write or push is fatal: a run in which one of them
\* failed never ends with exit status 0.
C2_PublishFailureIsFatal ==
  (pc = "done" /\ \E i \in 1..Len(ops) : ops[i].op \in {"pull", "write", "push"} /\ ops[i].status # 0)
    => exitCode > 0

----------------------------------------------------------------------------
\* C3: a lab response whose status is neither 200 nor 404 ends the run at
\* once with a non-zero exit status, so that nothing is written, committed
\* or pushed after it.
C3_LabErrorIsFatal ==
  \A i \in 1..Len(ops) :
    (ops[i].op = "lab" /\ ops[i].status \notin {200, 404}) =>
      /\ i = Len(ops)
      /\ pc = "done"
      /\ exitCode > 0

----------------------------------------------------------------------------
\* C4 as stated: a run that follows another run on unchanged upstream data
\* computes the same serialization and performs no pull, write, add, commit
\* or push.
C4_RerunNeverPublishes ==
  (prev.ran /\ prev.same) =>
    /\ NoPublish(ops)
    /\ (Built /\ prev.built) => new_json = prev.json

\* C4: a run that follows, on unchanged upstream data, a run that ended with
\* exit status 0 computes the byte-identical serialization and performs no
\* pull, write, add, commit or push; it ends with exit status 0.
C4_RerunAfterSuccessIsNoOp ==
  (prev.ran /\ prev.same /\ prev.exit = 0) =>
    /\ NoPublish(ops)
    /\ Built => new_json = prev.json
    /\ Built => (pc = "done" /\ exitCode = 0)

\* the second run has compared hashes after a first run that published
C4_Witness ==
  /\ prev.ran /\ prev.same /\ prev.exit = 0
  /\ ~ NoPublish(prev.ops)
  /\ Built
  /\ Len(payload.items) = 2

----------------------------------------------------------------------------
\* C5: when the hash of the local artifact equals the hash of the new
\* serialization the run is over with exit status 0 and has performed no
\* pull, write, add, commit or push; when there is no local artifact the
\* run goes on to the publish steps.
C5_HashGate ==
  Built =>
    /\ (old_hash = new_hash) => (pc = "done" /\ exitCode = 0 /\ NoPublish(ops))
    /\ IsNone(old_hash) =>
         \/ pc = "pull"
         \/ \E i \in 1..Len(ops) : ops[i].op = "pull"

\* an existing artifact whose hash equals the new one
C5_Witness ==
  /\ Built
  /\ old_hash = new_hash
  /\ menuFile = File(new_json)
  /\ Len(payload.items) > 0

----------------------------------------------------------------------------
FromAllowedRecord(rec) ==
  \E k \in 1..Len(served) :
    /\ served[k].Id = rec.Id
    /\ Allowed(served[k])
    /\ served[k].Label = rec.Label
    /\ served[k].Quantity = rec.Quantity

\* C6: the records kept by the page loop, and the items of the payload,
\* have pairwise different unit ids, and each was built from a received
\* inventory record whose lowercased location name is in ROOMS.
C6_UniqueAllowedUnits ==
  /\ \A i, j \in 1..Len(packages_map) :
       i # j => packages_map[i].Id # packages_map[j].Id
  /\ \A i \in 1..Len(packages_map) : FromAllowedRecord(packages_map[i])
  /\ \A i, j \in 1..Len(payload.items) :
       i # j => payload.items[i].Id # payload.items[j].Id
  /\ \A i \in 1..Len(payload.items) : FromAllowedRecord(payload.items[i])

\* a payload built after pages that repeated a unit id and carried units in
\* disallowed locations
C6_Witness ==
  /\ Built
  /\ Len(payload.items) = 2
  /\ Len(served) > 2
  /\ \E k \in 1..Len(served) : ~ Allowed(served[k])
  /\ \E k, l \in 1..Len(served) : k # l /\ served[k].Id = served[l].Id /\ Allowed(served[k]) /\ Allowed(served[l])

----------------------------------------------------------------------------
\* C7: when the source reports the total N on its pages 1..N, the page
\* requests of a run are at every moment 1, 2, ... in order and never go
\* past N; once the loop is over they are exactly 1..N and the retained
\* units are the units of the pages 1..N with an allowed location.  (The
\* source is compared while it still is what the run was served from.)
C7_ExactlyNPages ==
  \A N \in 1..MaxPages :
    (ConsistentTotal(N) /\ ~ changed) =>
      /\ Len(PageRequests) <= N
      /\ \A i \in 1..Len(PageRequests) : PageRequests[i] = i
      /\ FetchOver =>
           /\ Len(PageRequests) = N
           /\ RetainedIds = AllowedIdsOfPages(N)

\* a source with three pages, fetched to the end
C7_Witness ==
  /\ ConsistentTotal(3)
  /\ ~ changed
  /\ FetchOver
  /\ PageRequests = <<1, 2, 3>>
  /\ RetainedIds # {}

----------------------------------------------------------------------------
ItemOf(pid) ==
  CHOOSE r \in {payload.items[i] : i \in 1..Len(payload.items)} : r.Id.v = pid

Elems(sq) == {sq[i] : i \in 1..Len(sq)}

\* C8: a 404 lab response does not make the run fail (the run does not end
\* on it with a non-zero exit status); in the payload the unit
\* that got it has an empty LabResults list, every retained unit is present
\* and was asked about, and a unit that got a 200 response carries exactly
\* the recognised records of that response.
C8_NotFoundIsEmpty ==
  /\ \A i \in 1..Len(ops) :
       (ops[i].op = "lab" /\ ops[i].status = 404) =>
         ~ (i = Len(ops) /\ exitCode > 0)
  /\ Built =>
       \A pid \in RetainedIds :
         /\ \E r \in Elems(payload.items) : r.Id.v = pid
         /\ \E i \in 1..Len(ops) : ops[i].op = "lab" /\ ops[i].arg = pid
         /\ labResp[pid].status = 404 => ItemOf(pid).LabResults = <<>>
         /\ labResp[pid].status = 200 =>
              /\ Len(ItemOf(pid).LabResults) = Len(KeptLabs(labResp[pid].Data))
              /\ Elems(ItemOf(pid).LabResults) = Elems(KeptLabs(labResp[pid].Data))

\* the first unit asked about got 404, a later one got results
C8_Witness ==
  /\ Built
  /\ Len(packages_map) = 2
  /\ labResp[packages_map[1].Id.v].status = 404
  /\ ItemOf(packages_map[1].Id.v).LabResults = <<>>
  /\ ItemOf(packages_map[2].Id.v).LabResults # <<>>

----------------------------------------------------------------------------
RowComplete(columns, row) ==
  /\ \A c \in AllColumns : IsStr(Cell(columns, row, c)) /\ Strip(Cell(columns, row, c).v) # <<>>
  /\ ~ IntRaises(Cell(columns, row, "MinQty"))
  /\ _to_money(Cell(columns, row, "Price")).t = "float"

\* C9: every rule of the published bulkRules list comes from a sheet row
\* whose three cells are present and parse: MinQty is an integer, Price a
\* decimal number, ProductGroup the text of the cell.
C9_RulesComplete ==
  Built =>
    \A i \in 1..Len(payload.bulkRules) :
      /\ payload.bulkRules[i].MinQty.t = "int"
      /\ payload.bulkRules[i].Price.t = "float"
      /\ \E k \in 1..Len(localExcel.rules) :
           /\ RowComplete(localExcel.columns, localExcel.rules[k])
           /\ payload.bulkRules[i] = RuleOf(localExcel.columns, localExcel.rules[k])

----------------------------------------------------------------------------
\* C10: in every item of the payload the LabResults entries are in
\* ascending order of TestTypeName (the order of Python strings).
C10_LabsSorted ==
  Built =>
    \A i \in 1..Len(payload.items) :
      \A j \in 1..(Len(payload.items[i].LabResults) - 1) :
        StrLeq(payload.items[i].LabResults[j].TestTypeName.v,
               payload.items[i].LabResults[j + 1].TestTypeName.v)

\* a unit whose lab records arrived out of order
C10_Witness ==
  /\ Built
  /\ \E i \in 1..Len(payload.items) :
       LET pid == payload.items[i].Id.v
       IN  /\ Len(payload.items[i].LabResults) >= 2
           /\ labResp[pid].status = 200
           /\ payload.items[i].LabResults # KeptLabs(labResp[pid].Data)

----------------------------------------------------------------------------
\* C11: every item of the payload was built from a received record whose
\* trimmed item name decides its Price and Type: when that name is a key
\* of the product map (compared exactly, case included) they are that
\* entry's price and type, otherwise both are null; a miss does not end
\* the run, the payload is built all the same.
C11_PriceTypeByExactName ==
  Built =>
    \A i \in 1..Len(payload.items) :
      \E k \in 1..Len(served) :
        LET name == Strip(PyStr(ItemNameOf(served[k])))
        IN  /\ served[k].Id = payload.items[i].Id
            /\ served[k].Label = payload.items[i].Label
            /\ IF name \in DOMAIN excel_map
               THEN /\ payload.items[i].Price = excel_map[name].price
                    /\ payload.items[i].Type = excel_map[name].type
               ELSE /\ payload.items[i].Price = None
                    /\ payload.items[i].Type = None

\* one unit misses a map that holds its name in another case, another unit
\* hits its entry
C11_Witness ==
  /\ Built
  /\ \E i, j \in 1..Len(payload.items) :
       /\ payload.items[i].ItemName.v \notin DOMAIN excel_map
       /\ \E n \in DOMAIN excel_map : Lower(n) = Lower(payload.items[i].ItemName.v)
       /\ payload.items[i].Price = None
       /\ payload.items[j].ItemName.v \in DOMAIN excel_map
       /\ payload.items[j].Price.t = "float"

----------------------------------------------------------------------------
\* the lowercased test-type name of a lab record contains a vocabulary term
Recognised(rec) ==
  /\ IsStr(rec.TestTypeName)
  /\ \E a \in Elems(ANALYTES) : Contains(Lower(rec.TestTypeName.v), a)

LabEntry(rec) == [TestTypeName |-> rec.TestTypeName, TestResultLevel |-> rec.TestResultLevel]

\* C12: for a unit whose lab request succeeded, a returned record is in
\* the unit's LabResults exactly when its lowercased test-type name
\* contains a vocabulary term, once per such record; every entry has
\* exactly the fields TestTypeName and TestResultLevel; the records
\* THC/21.4 and Moisture/9 give the single entry THC/21.4.
C12_LabsFilteredByVocabulary ==
  Built =>
    \A i \in 1..Len(payload.items) :
      LET lr == labResp[payload.items[i].Id.v]
          labs == payload.items[i].LabResults
      IN  lr.status = 200 =>
            /\ \A j \in 1..Len(labs) : DOMAIN labs[j] = {"TestTypeName", "TestResultLevel"}
            /\ \A k \in 1..Len(lr.Data) :
                 Recognised(lr.Data[k]) <=> LabEntry(lr.Data[k]) \in Elems(labs)
            /\ \A j \in 1..Len(labs) : \E k \in 1..Len(lr.Data) : labs[j] = LabEntry(lr.Data[k])
            /\ Len(labs) = Cardinality({k \in 1..Len(lr.Data) : Recognised(lr.Data[k])})
            /\ lr.Data = <<labTHC, labMoisture>> =>
                 labs = <<[TestTypeName |-> Str(<<"T","H","C">>),
                           TestResultLevel |-> Str(<<"2","1",".","4">>)]>>

\* the unit that got THC and Moisture is in the payload
C12_Witness ==
  /\ Built
  /\ \E i \in 1..Len(payload.items) :
       /\ labResp[payload.items[i].Id.v].status = 200
       /\ labResp[payload.items[i].Id.v].Data = <<labTHC, labMoisture>>
       /\ Len(payload.items[i].LabResults) = 1

----------------------------------------------------------------------------
\* the publish operations of this run, in order
PublishSeq ==
  LET po == SelectSeq(ops, LAMBDA o : o.op \in PublishOps)
  IN  [i \in 1..Len(po) |-> po[i].op]

PublishOrder == <<"pull", "write", "add", "commit", "push">>

\* C13: the publish operations of a run are an initial part of the fixed
\* order pull, write, add (stage), commit, push; the artifact is written
\* only after a pull of the same run that succeeded, and a commit or push
\* only comes after the write.
C13_PublishOrder ==
  /\ Len(PublishSeq) <= Len(PublishOrder)
  /\ \A i \in 1..Len(PublishSeq) : PublishSeq[i] = PublishOrder[i]
  /\ \A i \in 1..Len(ops) :
       ops[i].op = "write" =>
         \E j \in 1..(i - 1) : ops[j].op = "pull" /\ ops[j].status = 0
  /\ \A i \in 1..Len(ops) :
       ops[i].op \in {"commit", "push"} =>
         \E j \in 1..(i - 1) : ops[j].op = "write"

\* a run that went through all five operations
C13_Witness ==
  /\ pc = "done"
  /\ PublishSeq = PublishOrder

----------------------------------------------------------------------------
----------------------------------------------------------------------------
\* the run recorded in r wrote the artifact and its push failed
WroteAndPushFailed(r) ==
  /\ \E i \in 1..Len(r.ops) : r.ops[i].op = "write" /\ r.ops[i].status = 0
  /\ \E i \in 1..Len(r.ops) : r.ops[i].op = "push" /\ r.ops[i].status # 0

\* C15: when the previous run wrote the artifact and its push failed, and
\* the upstream data did not change, then once this run is over the remote
\* holds the same menu.json as the local working tree.
C15_NextRunReconciles ==
  (prev.ran /\ WroteAndPushFailed(prev) /\ prev.same /\ pc = "done") =>
    remoteHead = menuFile

----------------------------------------------------------------------------
\* the rules of the rows whose three cells are present and parse, in order
RECURSIVE ValidRules(_, _)
ValidRules(columns, rows) ==
  IF rows = <<>> THEN <<>>
  ELSE IF RowComplete(columns, Head(rows))
       THEN <<RuleOf(columns, Head(rows))>> \o ValidRules(columns, Tail(rows))
       ELSE ValidRules(columns, Tail(rows))

\* C16: with a readable workbook the spreadsheet step never ends the run,
\* whatever its BulkRules rows hold: the run goes on with the product map
\* and with the rules of exactly the rows that parse, the others skipped.
C16_BadRuleRowIsSkipped ==
  (Len(ops) >= 1 /\ localExcel.t = "xlsx") =>
    /\ ~ (pc = "done" /\ Len(ops) = 1 /\ exitCode > 0)
    /\ Len(ops) > 1 =>
         /\ excel_map = ProductMap(localExcel.products, << >>)
         /\ bulk_rules = IF localExcel.hasBulkRules
                         THEN ValidRules(localExcel.columns, localExcel.rules)
                         ELSE <<>>

----------------------------------------------------------------------------
\* positions in served of the records of unit pid
RecordsOf(pid) == {k \in 1..Len(served) : served[k].Id.v = pid}

AllowedRecordsOf(pid) == {k \in RecordsOf(pid) : Allowed(served[k])}

Last(S) == CHOOSE k \in S : \A j \in S : j <= k

ItemsOf(pid) == {i \in 1..Len(payload.items) : payload.items[i].Id.v = pid}

BuiltFrom(item, rec) ==
  /\ item.Id = rec.Id
  /\ item.Label = rec.Label
  /\ item.Quantity = rec.Quantity
  /\ item.ItemName = Str(Strip(PyStr(ItemNameOf(rec))))

\* C17 as stated: a unit id received in more than one inventory record
\* has exactly one item in the payload, built from the last of all the
\* records received with that id.
C17_LastSeenOfAll ==
  Built =>
    \A pid \in UnitIds :
      Cardinality(RecordsOf(pid)) > 1 =>
        /\ Cardinality(ItemsOf(pid)) = 1
        /\ \A i \in ItemsOf(pid) : BuiltFrom(payload.items[i], served[Last(RecordsOf(pid))])

\* C17: a unit id received in more than one inventory record has at most
\* one item in the payload: none when no record of it has an allowed
\* location, otherwise exactly one, built from the last of its records
\* whose location is allowed.
C17_LastSeenOfAllowed ==
  Built =>
    \A pid \in UnitIds :
      Cardinality(RecordsOf(pid)) > 1 =>
        IF AllowedRecordsOf(pid) = {}
        THEN ItemsOf(pid) = {}
        ELSE /\ Cardinality(ItemsOf(pid)) = 1
             /\ \A i \in ItemsOf(pid) :
                  BuiltFrom(payload.items[i], served[Last(AllowedRecordsOf(pid))])

\* one unit came twice from allowed locations under different labels,
\* another came last from a location that is not allowed
C17_Witness ==
  /\ Built
  /\ \E pid \in UnitIds :
       /\ \E j, k \in AllowedRecordsOf(pid) : served[j].Label # served[k].Label
       /\ ItemsOf(pid) # {}
  /\ \E pid \in UnitIds :
       /\ AllowedRecordsOf(pid) # {}
       /\ Last(RecordsOf(pid)) \notin AllowedRecordsOf(pid)
       /\ ItemsOf(pid) # {}

----------------------------------------------------------------------------
\* C18: the items of the payload are in ascending order of unit id, in
\* whatever order the pages delivered the units, and they are the
\* retained units, none lost.
C18_ItemsSortedById ==
  Built =>
    /\ \A i, j \in 1..Len(payload.items) :
         i < j => payload.items[i].Id.v <= payload.items[j].Id.v
    /\ {payload.items[i].Id.v : i \in 1..Len(payload.items)} = RetainedIds
    /\ Len(payload.items) = Len(packages_map)

\* the units were retained in another order than that of their ids
C18_Witness ==
  /\ Built
  /\ \E i, j \in 1..Len(packages_map) :
       i < j /\ packages_map[i].Id.v > packages_map[j].Id.v

----------------------------------------------------------------------------
\* C19: when the sync of the spreadsheet fails, or the file at LOCAL_EXCEL
\* is missing or cannot be read as a workbook, the spreadsheet step is the
\* last step of the run, which ends with a non-zero exit status; no run
\* goes on with a workbook left by an earlier sync.
C19_SpreadsheetFailFast ==
  (Len(ops) >= 1 /\ (ops[1].status # 0 \/ localExcel.t # "xlsx")) =>
    /\ Len(ops) = 1
    /\ pc = "done"
    /\ exitCode > 0

----------------------------------------------------------------------------
\* the fields of an inventory unit beyond Id, Label, ItemName and Quantity:
\* the storage location name and the received, packaged and last-modified
\* dates
PassedThrough == {"LocationName", "DateReceived", "PackageDate", "CreatedAt"}

\* C20: every item of the payload has, next to its own fields, the
\* storage location name of the record it was built from and the three
\* date fields (null when the source has none).
C20_AllFieldsPassedThrough ==
  Built =>
    \A i \in 1..Len(payload.items) :
      /\ PassedThrough \subseteq DOMAIN payload.items[i]
      /\ \E k \in 1..Len(served) :
           /\ served[k].Id = payload.items[i].Id
           /\ served[k].LocationName = payload.items[i].LocationName

=============================================================================
